---- MODULE Spec2Model ----
(***************************************************************************)
(* Cloud recording service of agora-token-service.                         *)
(*                                                                         *)
(* Five specifications:                                                    *)
(*   Spec          the composite StartRecording handler (validate, generate *)
(*                 uid, Acquire, GenRtcToken, Start), one run per request,  *)
(*                 requests interleaved;                                    *)
(*   SpecClient    the provider client makeRequest, applied to every answer *)
(*                 the network can give;                                    *)
(*   SpecHandlers  the single-call handlers (acquire, start, stop, query,   *)
(*                 update, updateLayout), one inbound request;              *)
(*   SpecService   one StartRecording request interleaved with one request  *)
(*                 to a handler that decodes a body;                        *)
(*   SpecCors      the middleware chain of a route: NoCache, CORSMiddleware *)
(*                 and the handler.                                         *)
(***************************************************************************)
EXTENDS Integers, Sequences, FiniteSets, TLC

VARIABLES
    svc,        \* the CloudRecordingService struct (configuration)
    inbound,    \* inbound[r]: the request as the caller sent it (history)
    pc,         \* pc[r]: where request r stands inside StartRecording
    clientReq,  \* clientReq[r]: the decoded ClientStartRecordingRequest
    uid,        \* uid[r]: local uid
    resourceID, \* resourceID[r]: local resourceID
    token,      \* token[r]: local token
    calls,      \* calls[r]: the calls request r has made, in order (history)
    resp,       \* resp[r]: the responses written to the caller, in order
    rngHolder,  \* the requests inside the UID generator's random source
    cpc,        \* provider client: "ready" or "returned"
    cargs,      \* provider client: the arguments of the call
    wire,       \* provider client: what happened on the network
    ret,        \* provider client: what makeRequest returned
    hpc,        \* single-call handlers: "idle", "wait" (makeRequest outstanding), "done"
    hin,        \* single-call handlers: the inbound request (history)
    hcalls,     \* single-call handlers: calls made, in order (history)
    hresp,      \* single-call handlers: the responses written, in order
    mw,         \* the Middleware struct (AllowOrigin)
    mpc,        \* route chain: "new", "idle", "cors", "handler", "done"
    mctx        \* route chain: the gin.Context of the request

vars == <<svc, inbound, pc, clientReq, uid, resourceID, token, calls, resp, rngHolder, cpc, cargs, wire, ret,
          hpc, hin, hcalls, hresp, mw, mpc, mctx>>
orchVars == <<svc, inbound, pc, clientReq, uid, resourceID, token, calls, resp, rngHolder>>
clientVars == <<cpc, cargs, wire, ret>>
handlerVars == <<hpc, hin, hcalls, hresp>>
corsVars == <<mw, mpc, mctx>>

----------------------------------------------------------------------------
(* Inputs the model draws from.                                            *)

Reqs == {"r1", "r2"}
ModeInputs == {"individual", "mix", "web", "bogus", ""}
ChannelNames == {"testChannel"}
UidSamples == {1, 2147483646}
Statuses == {100, 200, 204, 299, 300, 301, 401, 403, 404, 500}
OrchStatuses == {200, 299, 300, 404}
NetCauses == {"timeout", "connection refused"}

----------------------------------------------------------------------------
(* Values: bodies, errors.                                                 *)

Absent == "<absent>"

\* A []byte body. kind "nil": no body; "text": bytes that are not a JSON
\* object; "object": a JSON object, each field a string or Absent.
NilBody == [kind |-> "nil", resourceId |-> Absent, sid |-> Absent]
TextBody == [kind |-> "text", resourceId |-> Absent, sid |-> Absent]
ObjBody(rid, sid) == [kind |-> "object", resourceId |-> rid, sid |-> sid]

Bodies ==
    { TextBody,
      ObjBody(Absent, Absent),
      ObjBody("res-Y", Absent),
      ObjBody("res-Y", ""),
      ObjBody("res-Y", "sid-X"),
      ObjBody("", "sid-X") }

\* The nil error.
NoErr == [kind |-> "nil"]

\* What the network does with one request.
Outcomes(statuses) ==
    [kind : {"new_err"}, cause : {"invalid URL"}, status : {0}, body : {NilBody}]
    \cup [kind : {"do_err"}, cause : NetCauses, status : {0}, body : {NilBody}]
    \cup [kind : {"read_err"}, cause : {"unexpected EOF"}, status : statuses, body : {NilBody}]
    \cup [kind : {"response"}, cause : {""}, status : statuses, body : Bodies]

NoWire == [kind |-> "none", cause |-> "", status |-> 0, body |-> NilBody]

----------------------------------------------------------------------------
(* Provider client.                                                        *)

makeRequest_StatusOffByOne(o) ==
    CASE o.kind = "new_err" ->
            [body |-> NilBody,
             err |-> [kind |-> "err", msg |-> <<"failed to create request: ", o.cause>>, body |-> NilBody]]
      [] o.kind = "do_err" ->
            [body |-> NilBody,
             err |-> [kind |-> "err", msg |-> <<"request failed: ", o.cause>>, body |-> NilBody]]
      [] o.kind = "read_err" ->
            [body |-> NilBody,
             err |-> [kind |-> "err", msg |-> <<"failed to read response body: ", o.cause>>, body |-> NilBody]]
      [] o.kind = "response" /\ o.status > 300 ->
            [body |-> NilBody,
             err |-> [kind |-> "err", msg |-> <<"error response from server: ">>, body |-> o.body]]
      [] OTHER -> [body |-> o.body, err |-> NoErr]

\* makeRequest(method, url, auth, body), as a function of what the network
\* did with the request: the error is the formatted text, msg followed by
\* the %s-formatted body.
makeRequest(o) ==
    CASE o.kind = "new_err" ->
            [body |-> NilBody,
             err |-> [kind |-> "err", msg |-> <<"failed to create request: ", o.cause>>, body |-> NilBody]]
      [] o.kind = "do_err" ->
            [body |-> NilBody,
             err |-> [kind |-> "err", msg |-> <<"request failed: ", o.cause>>, body |-> NilBody]]
      [] o.kind = "read_err" ->
            [body |-> NilBody,
             err |-> [kind |-> "err", msg |-> <<"failed to read response body: ", o.cause>>, body |-> NilBody]]
      [] o.kind = "response" /\ o.status >= 300 ->
            [body |-> NilBody,
             err |-> [kind |-> "err", msg |-> <<"error response from server: ">>, body |-> o.body]]
      [] OTHER -> [body |-> o.body, err |-> NoErr]

\* The makeRequest of cloud_recording_service.go: return nil, nil.
makeRequestStub == [body |-> NilBody, err |-> NoErr]

----------------------------------------------------------------------------
(* Helpers of the composite StartRecording.                                *)

\* Contains(modes, mode): membership in a slice.
Contains(slice, x) == \E i \in DOMAIN slice : slice[i] = x

modes == <<"individual", "mix", "web">>

ValidMode_AcceptAll(mode) == TRUE

\* The mode check of StartRecording.
ValidMode(mode) == Contains(modes, mode)

RECURSIVE Itoa(_)
\* strconv.Itoa for n >= 0: the decimal digits, most significant first.
Itoa(n) == IF n < 10 THEN <<n>> ELSE Itoa(n \div 10) \o <<n % 10>>

generateUID_WithZero == { Itoa(v) : v \in UidSamples \cup {0} }

\* generateUID(): the uids a call can return.
generateUID == { Itoa(v) : v \in UidSamples }

\* json.Unmarshal into a struct of string fields: an absent field keeps the
\* zero value "".
UnmarshalOK(b) == b.kind = "object"
Field(b, k) == IF b[k] = Absent THEN "" ELSE b[k]

\* s.makeRequest(method, url, payload) of the service: status < 300 is
\* success with the raw body, status >= 300 a failure carrying status and
\* body, a network failure or timeout an "upstream unavailable" failure.
ServiceMakeRequest(o) ==
    IF o.kind = "response" /\ o.status < 300
    THEN [body |-> o.body, err |-> NoErr]
    ELSE IF o.kind = "response"
    THEN [body |-> NilBody,
          err |-> [kind |-> "err", msg |-> <<"error response from server: ">>,
                   status |-> o.status, body |-> o.body]]
    ELSE [body |-> NilBody,
          err |-> [kind |-> "err", msg |-> <<"upstream unavailable: ", o.cause>>,
                   status |-> 0, body |-> NilBody]]

ParseErr == [kind |-> "err", msg |-> <<"error parsing response: ", "invalid JSON">>,
             status |-> 0, body |-> NilBody]

NoResourceErr == [kind |-> "err", msg |-> <<"no resourceId in response">>,
                  status |-> 0, body |-> NilBody]

\* HandleAcquireResourceReq(acquireReq): (resourceId, error). A success
\* returns the handle the provider allocated: the resourceId exists before
\* a start call is attempted.
HandleAcquireResourceReq(o) ==
    LET r == ServiceMakeRequest(o) IN
    IF r.err # NoErr THEN [val |-> "", err |-> r.err]
    ELSE IF ~UnmarshalOK(r.body) THEN [val |-> "", err |-> ParseErr]
    ELSE IF Field(r.body, "resourceId") = "" THEN [val |-> "", err |-> NoResourceErr]
    ELSE [val |-> Field(r.body, "resourceId"), err |-> NoErr]

HandleStartRecordingReq_ReturnsResourceId(o) ==
    LET r == ServiceMakeRequest(o) IN
    IF r.err # NoErr THEN [val |-> "", err |-> r.err]
    ELSE IF ~UnmarshalOK(r.body) THEN [val |-> "", err |-> ParseErr]
    ELSE [val |-> Field(r.body, "resourceId"), err |-> NoErr]

\* HandleStartRecordingReq(startReq, resourceId, modeType): (sid, error).
HandleStartRecordingReq(o) ==
    LET r == ServiceMakeRequest(o) IN
    IF r.err # NoErr THEN [val |-> "", err |-> r.err]
    ELSE IF ~UnmarshalOK(r.body) THEN [val |-> "", err |-> ParseErr]
    ELSE [val |-> Field(r.body, "sid"), err |-> NoErr]

NoToken == [channel |-> "", uid |-> <<>>]
TokenErr == [kind |-> "err", msg |-> <<"failed to generate rtc token">>,
             status |-> 0, body |-> NilBody]

\* s.tokenService.GenRtcToken(tokenRequest): (token, error); the token is
\* the signed blob over channel and uid.
GenRtcToken(channel, u) ==
    { [val |-> [channel |-> channel, uid |-> u], err |-> NoErr],
      [val |-> NoToken, err |-> TokenErr] }

Wrap_NoPrefix(prefix, e) == e

\* prefix + err.Error()
Wrap(prefix, e) == [e EXCEPT !.msg = <<prefix>> \o e.msg]

NoStorage == [vendor |-> 0, region |-> 0, bucket |-> "", accessKey |-> "", secretKey |-> ""]

\* One entry of the call history; fields a call does not send are zero.
Call(op, cname, u, rid, mode, tok, scene, hours, storage) ==
    [op |-> op, cname |-> cname, uid |-> u, resourceId |-> rid, mode |-> mode,
     token |-> tok, scene |-> scene, resourceExpiredHour |-> hours,
     storageConfig |-> storage, st |-> "out", answer |-> NilBody, issued |-> NoToken]

\* The last call of request r has returned with result res.
CallSt(res) == IF res.err = NoErr THEN "ok" ELSE "fail"
Returned(r, res, body, tok) ==
    [calls[r] EXCEPT ![Len(calls[r])].st = CallSt(res),
                     ![Len(calls[r])].answer = body,
                     ![Len(calls[r])].issued = tok]

\* The JSON body of a StartRecording request: whether it decodes, its
\* channelName and recordingMode, and what it holds under the keys scene,
\* resourceExpiredHour and storageConfig (zero when the key is absent).
NoInbound ==
    [decodable |-> FALSE, channelName |-> "", recordingMode |-> "",
     scene |-> 0, resourceExpiredHour |-> 0, storageConfig |-> NoStorage]

\* The StorageConfig NewCloudRecordingService is given.
ConfiguredStorage ==
    [vendor |-> 1, region |-> 0, bucket |-> "bucket",
     accessKey |-> "access", secretKey |-> "secret"]

CallerStorage ==
    [vendor |-> 2, region |-> 3, bucket |-> "caller-bucket",
     accessKey |-> "caller-access", secretKey |-> "caller-secret"]

StartInputs ==
    {NoInbound}
    \cup [decodable : {TRUE}, channelName : ChannelNames, recordingMode : ModeInputs,
          scene : {0}, resourceExpiredHour : {0}, storageConfig : {NoStorage}]
    \cup [decodable : {TRUE}, channelName : ChannelNames, recordingMode : {"mix"},
          scene : {5}, resourceExpiredHour : {72}, storageConfig : {CallerStorage}]
NoReq == [channelName |-> "", recordingMode |-> ""]

BindErr == [kind |-> "err", msg |-> <<"invalid character in request body">>,
            status |-> 0, body |-> NilBody]
InvalidModeErr == [kind |-> "err", msg |-> <<"Invalid recording mode.">>,
                   status |-> 0, body |-> NilBody]

\* c.JSON(status, gin.H{"error": text})
ErrorResponse(status, e) == [status |-> status, error |-> e]

\* c.JSON(http.StatusOK, gin.H{"UID": ..., "resourceId": ..., "recordingId": ...})
SuccessResponse(u, rid, sid) ==
    [status |-> 200, UID |-> u, resourceId |-> rid, recordingId |-> sid]

Respond(r, x) == [resp EXCEPT ![r] = Append(@, x)]

\* What a caller sends to a single-call handler: the JSON body (decodable
\* or not; cname, uid, clientRequest.token) and the session triple it names.
NoHandlerInbound ==
    [op |-> "", decodable |-> FALSE, cname |-> "", uid |-> <<>>, token |-> NoToken,
     resourceId |-> "", sid |-> "", mode |-> ""]

\* The gin.Context before a request is served: no Origin header, nothing
\* written.
NoContext ==
    [method |-> "", origin |-> <<>>, headers |-> {}, status |-> 0, body |-> "",
     aborted |-> FALSE, handled |-> FALSE]

----------------------------------------------------------------------------
(* The composite StartRecording, cut at its blocking calls.                *)

Init ==
    /\ svc = [appID |-> "app-id", appCertificate |-> "app-cert",
              customerID |-> "customer-id", customerCertificate |-> "customer-cert",
              baseURL |-> "https://api.agora.io/v1/apps",
              basicAuth |-> "Basic Y3VzdG9tZXI=",
              storageConfig |-> ConfiguredStorage]
    /\ inbound = [r \in Reqs |-> NoInbound]
    /\ pc = [r \in Reqs |-> "idle"]
    /\ clientReq = [r \in Reqs |-> NoReq]
    /\ uid = [r \in Reqs |-> <<>>]
    /\ resourceID = [r \in Reqs |-> ""]
    /\ token = [r \in Reqs |-> NoToken]
    /\ calls = [r \in Reqs |-> <<>>]
    /\ resp = [r \in Reqs |-> <<>>]
    /\ rngHolder = {}
    /\ cpc = "idle"
    /\ cargs = [method |-> "", url |-> "", auth |-> ""]
    /\ wire = NoWire
    /\ ret = [body |-> NilBody, err |-> NoErr]
    /\ hpc = "idle"
    /\ hin = NoHandlerInbound
    /\ hcalls = <<>>
    /\ hresp = <<>>
    /\ mw = [AllowOrigin |-> <<>>]
    /\ mpc = "new"
    /\ mctx = NoContext

AcquireFailed_Ignored(res) == FALSE

\* if err != nil after HandleAcquireResourceReq
AcquireFailed(res) == res.err # NoErr

TokenFailed_Ignored(res) == FALSE

\* if err != nil after GenRtcToken
TokenFailed(res) == res.err # NoErr

StartFailed_Ignored(res) == FALSE

\* if err != nil after HandleStartRecordingReq
StartFailed(res) == res.err # NoErr

CallAfterAcquire_StartFirst(r) ==
    Call("Start", clientReq[r].channelName, uid[r], resourceID'[r],
         clientReq[r].recordingMode, NoToken, 1, 24, svc.storageConfig)

CallAfterAcquire_OtherUid(r) ==
    Call("IssueToken", clientReq[r].channelName,
         CHOOSE u \in generateUID : u # uid[r], "", "", NoToken, 0, 0, NoStorage)

\* The call made once the resource is acquired: GenRtcToken with the
\* TokenRequest {rtc, channel, uid}.
CallAfterAcquire(r) ==
    Call("IssueToken", clientReq[r].channelName, uid[r], "", "", NoToken, 0, 0, NoStorage)

StartCall_EmptyResource(r, tok) ==
    Call("Start", clientReq[r].channelName, uid[r], "",
         clientReq[r].recordingMode, tok, 1, 24, svc.storageConfig)

StartCall_CallerDefaults(r, tok) ==
    Call("Start", clientReq[r].channelName, uid[r], resourceID[r],
         clientReq[r].recordingMode, tok,
         IF inbound[r].scene # 0 THEN inbound[r].scene ELSE 1,
         IF inbound[r].resourceExpiredHour # 0 THEN inbound[r].resourceExpiredHour ELSE 24,
         svc.storageConfig)

StartCall_CallerStorage(r, tok) ==
    Call("Start", clientReq[r].channelName, uid[r], resourceID[r],
         clientReq[r].recordingMode, tok, 1, 24,
         IF inbound[r].storageConfig # NoStorage THEN inbound[r].storageConfig
         ELSE svc.storageConfig)

StartCall_NoToken(r, tok) ==
    Call("Start", clientReq[r].channelName, uid[r], resourceID[r],
         clientReq[r].recordingMode, NoToken, 1, 24, svc.storageConfig)

\* The StartRecordingRequest built once the token is issued, sent by
\* HandleStartRecordingReq(startReq, resourceID, clientReq.RecordingMode).
StartCall(r, tok) ==
    Call("Start", clientReq[r].channelName, uid[r], resourceID[r],
         clientReq[r].recordingMode, tok, 1, 24, svc.storageConfig)

RngFree_Unguarded == TRUE

\* The lock of the process-wide random source that rand.Seed seeds: a
\* request enters the source only while no other request is inside.
RngFree == rngHolder = {}

\* StartRecording up to the call of generateUID: decode, validate the mode.
StartRecording(r) ==
    /\ pc[r] = "idle"
    /\ \E in \in StartInputs :
         /\ inbound' = [inbound EXCEPT ![r] = in]
         /\ IF ~in.decodable
            THEN /\ resp' = Respond(r, ErrorResponse(400, BindErr))
                 /\ pc' = [pc EXCEPT ![r] = "done"]
                 /\ UNCHANGED clientReq
            ELSE IF ~ValidMode(in.recordingMode)
            THEN /\ clientReq' = [clientReq EXCEPT ![r] =
                      [channelName |-> in.channelName, recordingMode |-> in.recordingMode]]
                 /\ resp' = Respond(r, ErrorResponse(500, InvalidModeErr))
                 /\ pc' = [pc EXCEPT ![r] = "done"]
            ELSE /\ clientReq' = [clientReq EXCEPT ![r] =
                      [channelName |-> in.channelName, recordingMode |-> in.recordingMode]]
                 /\ pc' = [pc EXCEPT ![r] = "uid"]
                 /\ UNCHANGED resp
    /\ UNCHANGED <<svc, uid, resourceID, token, calls, rngHolder, clientVars, handlerVars, corsVars>>

\* generateUID() enters the random source.
StartRecording_GenerateUID(r) ==
    /\ pc[r] = "uid"
    /\ RngFree
    /\ rngHolder' = rngHolder \cup {r}
    /\ pc' = [pc EXCEPT ![r] = "rng"]
    /\ UNCHANGED <<svc, inbound, clientReq, uid, resourceID, token, calls, resp,
                   clientVars, handlerVars, corsVars>>

StartRecording_AfterUID_Parallel(r) ==
    /\ pc[r] = "rng"
    /\ \E u \in generateUID :
         /\ uid' = [uid EXCEPT ![r] = u]
         /\ calls' = [calls EXCEPT ![r] =
              @ \o << Call("Acquire", clientReq[r].channelName, u, "", "", NoToken,
                           0, 0, NoStorage),
                      Call("IssueToken", clientReq[r].channelName, u, "", "", NoToken,
                           0, 0, NoStorage) >>]
    /\ rngHolder' = rngHolder \ {r}
    /\ pc' = [pc EXCEPT ![r] = "acquire"]
    /\ UNCHANGED <<svc, inbound, clientReq, resourceID, token, resp, clientVars, handlerVars, corsVars>>

\* generateUID() draws the uid and leaves the source; StartRecording builds
\* the AcquireResourceRequest and calls HandleAcquireResourceReq.
StartRecording_AfterUID(r) ==
    /\ pc[r] = "rng"
    /\ \E u \in generateUID :
         /\ uid' = [uid EXCEPT ![r] = u]
         /\ calls' = [calls EXCEPT ![r] =
              Append(@, Call("Acquire", clientReq[r].channelName, u, "", "", NoToken,
                             0, 0, NoStorage))]
    /\ rngHolder' = rngHolder \ {r}
    /\ pc' = [pc EXCEPT ![r] = "acquire"]
    /\ UNCHANGED <<svc, inbound, clientReq, resourceID, token, resp, clientVars, handlerVars, corsVars>>

\* HandleAcquireResourceReq returns: on error answer 500, else call
\* GenRtcToken.
StartRecording_AfterAcquire(r) ==
    /\ pc[r] = "acquire"
    /\ \E o \in Outcomes(OrchStatuses) :
         LET res == HandleAcquireResourceReq(o) IN
         IF AcquireFailed(res)
         THEN /\ calls' = [calls EXCEPT ![r] = Returned(r, res, o.body, NoToken)]
              /\ resp' = Respond(r, ErrorResponse(500, Wrap("Failed to acquire resource: ", res.err)))
              /\ pc' = [pc EXCEPT ![r] = "done"]
              /\ UNCHANGED resourceID
         ELSE /\ resourceID' = [resourceID EXCEPT ![r] = res.val]
              /\ calls' = [calls EXCEPT ![r] = Append(Returned(r, res, o.body, NoToken), CallAfterAcquire(r))]
              /\ pc' = [pc EXCEPT ![r] = "token"]
              /\ UNCHANGED resp
    /\ UNCHANGED <<svc, inbound, clientReq, uid, token, rngHolder, clientVars, handlerVars, corsVars>>

\* GenRtcToken returns: on error answer 500, else build the
\* StartRecordingRequest and call HandleStartRecordingReq.
StartRecording_AfterToken(r) ==
    /\ pc[r] = "token"
    /\ \E res \in GenRtcToken(clientReq[r].channelName, uid[r]) :
         IF TokenFailed(res)
         THEN /\ calls' = [calls EXCEPT ![r] = Returned(r, res, NilBody, res.val)]
              /\ resp' = Respond(r, ErrorResponse(500, res.err))
              /\ pc' = [pc EXCEPT ![r] = "done"]
              /\ UNCHANGED token
         ELSE /\ token' = [token EXCEPT ![r] = res.val]
              /\ calls' = [calls EXCEPT ![r] =
                      Append(Returned(r, res, NilBody, res.val), StartCall(r, res.val))]
              /\ pc' = [pc EXCEPT ![r] = "start"]
              /\ UNCHANGED resp
    /\ UNCHANGED <<svc, inbound, clientReq, uid, resourceID, rngHolder, clientVars, handlerVars, corsVars>>

StartRecording_AfterStart_Retry(r) ==
    /\ pc[r] = "start"
    /\ \E o \in Outcomes(OrchStatuses) :
         LET res == HandleStartRecordingReq(o) IN
         IF StartFailed(res) /\ Len(calls[r]) < 4
         THEN /\ calls' = [calls EXCEPT ![r] =
                      Append(Returned(r, res, o.body, NoToken), [calls[r][Len(calls[r])] EXCEPT !.st = "out"])]
              /\ UNCHANGED <<resp, pc>>
         ELSE IF StartFailed(res)
         THEN /\ calls' = [calls EXCEPT ![r] = Returned(r, res, o.body, NoToken)]
              /\ resp' = Respond(r, ErrorResponse(500, Wrap("Failed to start recording: ", res.err)))
              /\ pc' = [pc EXCEPT ![r] = "done"]
         ELSE /\ calls' = [calls EXCEPT ![r] = Returned(r, res, o.body, NoToken)]
              /\ resp' = Respond(r, SuccessResponse(uid[r], resourceID[r], res.val))
              /\ pc' = [pc EXCEPT ![r] = "done"]
    /\ UNCHANGED <<svc, inbound, clientReq, uid, resourceID, token, rngHolder, clientVars, handlerVars, corsVars>>

\* HandleStartRecordingReq returns: answer 500 on error, else 200 with
\* UID, resourceId and recordingId.
StartRecording_AfterStart(r) ==
    /\ pc[r] = "start"
    /\ \E o \in Outcomes(OrchStatuses) :
         LET res == HandleStartRecordingReq(o) IN
         /\ calls' = [calls EXCEPT ![r] = Returned(r, res, o.body, NoToken)]
         /\ IF StartFailed(res)
            THEN resp' = Respond(r, ErrorResponse(500, Wrap("Failed to start recording: ", res.err)))
            ELSE resp' = Respond(r, SuccessResponse(uid[r], resourceID[r], res.val))
    /\ pc' = [pc EXCEPT ![r] = "done"]
    /\ UNCHANGED <<svc, inbound, clientReq, uid, resourceID, token, rngHolder, clientVars, handlerVars, corsVars>>

Next ==
    \E r \in Reqs :
        \/ StartRecording(r)
        \/ StartRecording_GenerateUID(r)
        \/ StartRecording_AfterUID(r)
        \/ StartRecording_AfterAcquire(r)
        \/ StartRecording_AfterToken(r)
        \/ StartRecording_AfterStart(r)

Spec == Init /\ [][Next]_vars

----------------------------------------------------------------------------
(* The provider client on its own: one call, every answer of the network.  *)

Methods == {"GET", "POST"}
Urls == {"/acquire", "/resourceid/res-Y/sid/sid-X/mode/mix/stop"}

\* makeRequest of cloud_recording_handlers.go is called and returns.
MakeRequestCall ==
    /\ cpc = "idle"
    /\ \E m \in Methods, u \in Urls, o \in Outcomes(Statuses) :
         /\ cargs' = [method |-> m, url |-> u, auth |-> svc.basicAuth]
         /\ wire' = o
         /\ ret' = makeRequest(o)
    /\ cpc' = "returned"
    /\ UNCHANGED <<orchVars, handlerVars, corsVars>>

\* makeRequest of cloud_recording_service.go is called and returns: no
\* request is sent.
MakeRequestStubCall ==
    /\ cpc = "idle"
    /\ \E m \in Methods, u \in Urls :
         cargs' = [method |-> m, url |-> u, auth |-> svc.basicAuth]
    /\ wire' = NoWire
    /\ ret' = makeRequestStub
    /\ cpc' = "returned"
    /\ UNCHANGED <<orchVars, handlerVars, corsVars>>

NextClient == MakeRequestCall \/ MakeRequestStubCall

SpecClient == Init /\ [][NextClient]_vars

----------------------------------------------------------------------------
(* The single-call handlers of cloud_recording_handlers.go: AcquireResource, *)
(* StartRecording, StopRecording, GetStatus, UpdateSubscriptionList and      *)
(* UpdateLayout, each cut at its one makeRequest.                            *)

Passthrough == {"stop", "query", "update", "updateLayout"}

\* The path parameters of the route registered for op: the routes are
\* "/startRecording", "/stopRecording", "/getStatus", "/update/subscriber-list"
\* and "/update/layout", none with a parameter.
RouteParams(op) == {}

\* c.Param(name): the value of the route's path parameter, "" when the
\* route has no such parameter.
Param(in, name) ==
    IF name \notin RouteParams(in.op) THEN ""
    ELSE CASE name = "resourceid" -> in.resourceId
           [] name = "sid" -> in.sid
           [] name = "mode" -> in.mode

\* fmt.Sprintf of the provider URLs, as the sequence of path segments.
AcquireUrl == <<svc.baseURL, svc.appID, "cloud_recording", "acquire">>
StartUrl(rid, mode) ==
    <<svc.baseURL, svc.appID, "cloud_recording", "resourceid", rid, "mode", mode, "start">>
StopUrl(rid, sid, mode) ==
    <<svc.baseURL, svc.appID, "cloud_recording", "resourceid", rid, "sid", sid, "mode", mode, "stop">>
QueryUrl(rid, sid, mode) ==
    <<svc.baseURL, svc.appID, "cloud_recording", "resourceid", rid, "sid", sid, "mode", mode, "query">>
UpdateUrl(rid, sid) ==
    <<svc.baseURL, svc.appID, "cloud_recording", "resourceid", rid, "sid", sid, "update">>
UpdateLayoutUrl(rid, sid) ==
    <<svc.baseURL, svc.appID, "cloud_recording", "resourceid", rid, "sid", sid, "updateLayout">>

\* base64.StdEncoding.EncodeToString: an injective encoding of its input.
Base64Encode(x) == [base64 |-> x]

CustomerAuth_AppPair == Base64Encode(<<svc.appID, ":", svc.appCertificate>>)

\* auth := base64("customerID:customerCertificate")
CustomerAuth == Base64Encode(<<svc.customerID, ":", svc.customerCertificate>>)

\* json.Marshal(req) of the bound request, with the token it holds.
MarshalReq(in, tok) == [kind |-> "json", cname |-> in.cname, uid |-> in.uid, token |-> tok]
NilReqBody == [kind |-> "nil", cname |-> "", uid |-> <<>>, token |-> NoToken]

\* makeRequest(method, url, auth, body) is entered: the request it sends,
\* with the Authorization header "Basic " + auth.
ProviderCall(op, method, url, auth, body) ==
    [kind |-> "provider", op |-> op, method |-> method, url |-> url,
     authorization |-> [scheme |-> "Basic", credentials |-> auth], body |-> body]

\* s.tokenService.GenRtcToken(tokenRequest) is called.
TokenCall(in) ==
    [kind |-> "token", op |-> "IssueToken", method |-> "", url |-> <<>>,
     authorization |-> [scheme |-> "", credentials |-> Base64Encode(<<>>)],
     body |-> MarshalReq(in, NoToken)]

InvalidRequestErr == [kind |-> "err", msg |-> <<"invalid request">>, body |-> NilBody]

\* c.JSON(status, gin.H{"error": ...})
ErrorJSON(status, e) == [status |-> status, error |-> e]
\* c.Data(http.StatusOK, "application/json", resp)
DataResponse(body) == [status |-> 200, contentType |-> "application/json", data |-> body]

RelayResponse_Reencoded(res) ==
    IF res.err # NoErr THEN ErrorJSON(500, res.err)
    ELSE DataResponse(IF UnmarshalOK(res.body)
                      THEN ObjBody(Field(res.body, "resourceId"), Field(res.body, "sid"))
                      ELSE res.body)

\* The end of every handler: 500 with err.Error(), or the body as received.
RelayResponse(res) ==
    IF res.err # NoErr THEN ErrorJSON(500, res.err) ELSE DataResponse(res.body)

\* The requests a caller can send to the handler of op.
HandlerInputs(op) ==
    {[NoHandlerInbound EXCEPT !.op = op]}
    \cup [op : {op}, decodable : {TRUE}, cname : ChannelNames, uid : {Itoa(123456789)},
          token : {NoToken}, resourceId : {"res-Y"}, sid : {"sid-X"}, mode : {"mix", "web"}]

Forward_NoDecodeCheck(in, call) ==
    /\ hpc = "idle"
    /\ hin' = in
    /\ hcalls' = Append(hcalls, call)
    /\ hpc' = "wait"
    /\ UNCHANGED hresp
    /\ UNCHANGED <<orchVars, clientVars, corsVars>>

\* A handler that binds the body, then forwards one request.
Forward(in, call) ==
    /\ hpc = "idle"
    /\ hin' = in
    /\ IF ~in.decodable
       THEN /\ hresp' = Append(hresp, ErrorJSON(400, InvalidRequestErr))
            /\ hpc' = "done"
            /\ UNCHANGED hcalls
       ELSE /\ hcalls' = Append(hcalls, call)
            /\ hpc' = "wait"
            /\ UNCHANGED hresp
    /\ UNCHANGED <<orchVars, clientVars, corsVars>>

Handlers_AcquireResource ==
    \E in \in HandlerInputs("acquire") :
        Forward(in, ProviderCall("acquire", "POST", AcquireUrl, CustomerAuth,
                                 MarshalReq(in, NoToken)))

\* StartRecording of cloud_recording_handlers.go: bind, GenRtcToken, set
\* req.ClientRequest.Token, forward.
Handlers_StartRecording ==
    /\ hpc = "idle"
    /\ \E in \in HandlerInputs("start") :
         /\ hin' = in
         /\ IF ~in.decodable
            THEN /\ hresp' = Append(hresp, ErrorJSON(400, InvalidRequestErr))
                 /\ hpc' = "done"
                 /\ UNCHANGED hcalls
            ELSE \E res \in GenRtcToken(in.cname, in.uid) :
                 IF res.err # NoErr
                 THEN /\ hcalls' = Append(hcalls, TokenCall(in))
                      /\ hresp' = Append(hresp, ErrorJSON(500, res.err))
                      /\ hpc' = "done"
                 ELSE /\ hcalls' = hcalls \o
                           << TokenCall(in),
                              ProviderCall("start", "POST",
                                           StartUrl(Param(in, "resourceid"), Param(in, "mode")),
                                           CustomerAuth, MarshalReq(in, res.val)) >>
                      /\ hpc' = "wait"
                      /\ UNCHANGED hresp
    /\ UNCHANGED <<orchVars, clientVars, corsVars>>

Handlers_StopRecording_WithToken ==
    /\ hpc = "idle"
    /\ \E in \in HandlerInputs("stop") :
         /\ hin' = in
         /\ IF ~in.decodable
            THEN /\ hresp' = Append(hresp, ErrorJSON(400, InvalidRequestErr))
                 /\ hpc' = "done"
                 /\ UNCHANGED hcalls
            ELSE /\ hcalls' = hcalls \o
                      << TokenCall(in),
                         ProviderCall("stop", "POST",
                                      StopUrl(Param(in, "resourceid"), Param(in, "sid"),
                                              Param(in, "mode")),
                                      CustomerAuth, MarshalReq(in, in.token)) >>
                 /\ hpc' = "wait"
                 /\ UNCHANGED hresp
    /\ UNCHANGED <<orchVars, clientVars, corsVars>>

Handlers_StopRecording_SessionRegistry ==
    \E in \in HandlerInputs("stop") :
        Forward(in, ProviderCall("stop", "POST",
                                 StopUrl(resourceID["r1"], Param(in, "sid"), Param(in, "mode")),
                                 CustomerAuth, MarshalReq(in, in.token)))

Handlers_StopRecording ==
    \E in \in HandlerInputs("stop") :
        Forward(in, ProviderCall("stop", "POST",
                                 StopUrl(Param(in, "resourceid"), Param(in, "sid"), Param(in, "mode")),
                                 CustomerAuth, MarshalReq(in, in.token)))

\* GetStatus binds no body.
Handlers_GetStatus ==
    \E in \in {i \in HandlerInputs("query") : i.decodable} :
        Forward(in, ProviderCall("query", "GET",
                                 QueryUrl(Param(in, "resourceid"), Param(in, "sid"), Param(in, "mode")),
                                 CustomerAuth, NilReqBody))

Handlers_UpdateSubscriptionList ==
    \E in \in HandlerInputs("update") :
        Forward(in, ProviderCall("update", "POST",
                                 UpdateUrl(Param(in, "resourceid"), Param(in, "sid")),
                                 CustomerAuth, MarshalReq(in, in.token)))

Handlers_UpdateLayout ==
    \E in \in HandlerInputs("updateLayout") :
        Forward(in, ProviderCall("updateLayout", "POST",
                                 UpdateLayoutUrl(Param(in, "resourceid"), Param(in, "sid")),
                                 CustomerAuth, MarshalReq(in, in.token)))

\* makeRequest returns to the handler, which answers the caller.
Handlers_MakeRequestReturn ==
    /\ hpc = "wait"
    /\ \E o \in Outcomes(Statuses) :
         /\ wire' = o
         /\ ret' = makeRequest(o)
         /\ hresp' = Append(hresp, RelayResponse(makeRequest(o)))
    /\ hpc' = "done"
    /\ UNCHANGED <<orchVars, cpc, cargs, hin, hcalls, corsVars>>

NextHandlers ==
    \/ Handlers_AcquireResource
    \/ Handlers_StartRecording
    \/ Handlers_StopRecording
    \/ Handlers_GetStatus
    \/ Handlers_UpdateSubscriptionList
    \/ Handlers_UpdateLayout
    \/ Handlers_MakeRequestReturn

SpecHandlers == Init /\ [][NextHandlers]_vars

----------------------------------------------------------------------------
(* The service with requests of both kinds in flight: one StartRecording   *)
(* request interleaved with one request to a handler that decodes a body.  *)

\* HandleStartRecording(startReq, w): the body is empty, nothing is written
\* to w.
HandleStartRecording(r) == resp' = resp

\* StartRecording of cloud_recording_service.go: decode the body, answer
\* 400 if that fails, else hand over to HandleStartRecording.
Service_StartRecording(r) ==
    /\ pc[r] = "idle"
    /\ \E in \in StartInputs :
         /\ inbound' = [inbound EXCEPT ![r] = in]
         /\ IF ~in.decodable
            THEN resp' = Respond(r, ErrorResponse(400, BindErr))
            ELSE HandleStartRecording(r)
    /\ pc' = [pc EXCEPT ![r] = "done"]
    /\ UNCHANGED <<svc, clientReq, uid, resourceID, token, calls, rngHolder,
                   clientVars, handlerVars, corsVars>>

NextService ==
    \/ StartRecording("r1")
    \/ Service_StartRecording("r1")
    \/ StartRecording_GenerateUID("r1")
    \/ StartRecording_AfterUID("r1")
    \/ StartRecording_AfterAcquire("r1")
    \/ StartRecording_AfterToken("r1")
    \/ StartRecording_AfterStart("r1")
    \/ Handlers_StopRecording
    \/ Handlers_UpdateSubscriptionList
    \/ Handlers_UpdateLayout
    \/ Handlers_MakeRequestReturn

SpecService == Init /\ [][NextService]_vars

----------------------------------------------------------------------------
(* The middleware chain of the routes: NoCache, CORSMiddleware, handler.   *)
(* A string is the sequence of its pieces; "," is a piece of its own.      *)

OriginA == "https://a.example"
OriginB == "https://b.example"
OriginC == "https://c.example"

\* Values of CORS_ALLOW_ORIGIN (unset is the empty string).
AllowOriginInputs ==
    { <<>>, <<"*">>, <<OriginA>>, <<OriginA, ",", OriginB>>, <<OriginA, ",">> }

\* Values of the Origin header (<<>>: no header, Header.Get gives "").
OriginInputs == { <<>>, <<OriginA>>, <<OriginB>>, <<OriginC>> }
RouteMethods == {"GET", "POST", "OPTIONS"}

RECURSIVE Split(_, _)
\* strings.Split(s, sep): the pieces between the separators; Split("", sep)
\* is the one-element list of the empty string.
Split(str, sep) ==
    IF \A i \in DOMAIN str : str[i] # sep
    THEN <<str>>
    ELSE LET k == CHOOSE i \in DOMAIN str :
                    str[i] = sep /\ \A j \in 1..(i - 1) : str[j] # sep IN
         <<SubSeq(str, 1, k - 1)>> \o Split(SubSeq(str, k + 1, Len(str)), sep)

\* (m *Middleware) isOriginAllowed(origin)
isOriginAllowed(origin) ==
    IF mw.AllowOrigin = <<"*">> THEN TRUE
    ELSE \E i \in DOMAIN Split(mw.AllowOrigin, ",") : origin = Split(mw.AllowOrigin, ",")[i]

\* NewMiddleware(allowOrigin)
NewMiddleware ==
    /\ mpc = "new"
    /\ \E a \in AllowOriginInputs : mw' = [AllowOrigin |-> a]
    /\ mpc' = "idle"
    /\ UNCHANGED <<orchVars, clientVars, handlerVars, mctx>>

\* A request enters the route group; NoCache sets its three headers.
NoCache ==
    /\ mpc = "idle"
    /\ \E m \in RouteMethods, o \in OriginInputs :
         mctx' = [NoContext EXCEPT !.method = m, !.origin = o,
                                   !.headers = {"Cache-Control", "Expires", "Pragma"}]
    /\ mpc' = "cors"
    /\ UNCHANGED <<orchVars, clientVars, handlerVars, mw>>

\* The function CORSMiddleware returns.
CORSMiddleware ==
    /\ mpc = "cors"
    /\ IF ~isOriginAllowed(mctx.origin)
       THEN /\ mctx' = [mctx EXCEPT !.headers = @ \cup {"Content-Type"},
                                    !.status = 403, !.body = "Origin not allowed",
                                    !.aborted = TRUE]
            /\ mpc' = "done"
       ELSE IF mctx.method = "OPTIONS"
       THEN /\ mctx' = [mctx EXCEPT !.headers = @ \cup {"Access-Control-Allow-Origin",
                                                         "Access-Control-Allow-Methods",
                                                         "Access-Control-Allow-Headers"},
                                    !.status = 204, !.aborted = TRUE]
            /\ mpc' = "done"
       ELSE /\ mctx' = [mctx EXCEPT !.headers = @ \cup {"Access-Control-Allow-Origin",
                                                         "Access-Control-Allow-Methods",
                                                         "Access-Control-Allow-Headers"}]
            /\ mpc' = "handler"
    /\ UNCHANGED <<orchVars, clientVars, handlerVars, mw>>

\* c.Next(): the handler registered on the route runs and answers.
RouteHandler ==
    /\ mpc = "handler"
    /\ \E st \in {200, 400, 500} :
         mctx' = [mctx EXCEPT !.handled = TRUE, !.status = st, !.body = "handler"]
    /\ mpc' = "done"
    /\ UNCHANGED <<orchVars, clientVars, handlerVars, mw>>

NextCors == NewMiddleware \/ NoCache \/ CORSMiddleware \/ RouteHandler

SpecCors == Init /\ [][NextCors]_vars

----------------------------------------------------------------------------
(* Claims about the composite StartRecording (specification Spec).         *)

CallOps(r) == [i \in DOMAIN calls[r] |-> calls[r][i].op]
Answered(r) == pc[r] = "done"
Failure(r) == Len(resp[r]) = 1 /\ resp[r][1].status >= 400
Success(r) == Len(resp[r]) = 1 /\ resp[r][1].status = 200

\* C1: a decoded StartRecording request whose recordingMode is not one of
\* individual, mix, web ends in the validation failure, and no Acquire,
\* IssueToken or Start call is made at any point of the request.
C1_InvalidModeNoCalls ==
    \A r \in Reqs :
        (pc[r] # "idle" /\ inbound[r].decodable
            /\ inbound[r].recordingMode \notin {"individual", "mix", "web"})
        => /\ Answered(r)
           /\ Failure(r)
           /\ resp[r][1].error = InvalidModeErr
           /\ calls[r] = <<>>

C1_Witness ==
    \E r \in Reqs :
        /\ inbound[r].decodable /\ inbound[r].recordingMode = "bogus"
        /\ Answered(r) /\ Failure(r) /\ calls[r] = <<>>

\* C2: a request that ends in success has made exactly Acquire, IssueToken,
\* Start, once each and in that order; and in every request, successful or
\* not, an IssueToken or Start call is preceded by an Acquire call that
\* returned successfully.
C2_SuccessCallOrder ==
    \A r \in Reqs :
        /\ (\E i \in DOMAIN resp[r] : resp[r][i].status = 200)
              => CallOps(r) = <<"Acquire", "IssueToken", "Start">>
        /\ \A i \in DOMAIN calls[r] :
              calls[r][i].op \in {"IssueToken", "Start"}
              => \E j \in 1..(i - 1) :
                    calls[r][j].op = "Acquire" /\ calls[r][j].st = "ok"

C2_Witness ==
    \E r \in Reqs :
        /\ Answered(r) /\ Success(r)
        /\ CallOps(r) = <<"Acquire", "IssueToken", "Start">>
        /\ \A i \in DOMAIN calls[r] : calls[r][i].st = "ok"

\* C3: whenever StartRecording answers 200, UID, resourceId and recordingId
\* of the result are all non-empty, whatever upstream body the provider
\* client classified as success.
C3_SuccessFieldsNonEmpty ==
    \A r \in Reqs : \A i \in DOMAIN resp[r] :
        resp[r][i].status = 200
        => /\ resp[r][i].UID # <<>>
           /\ resp[r][i].resourceId # ""
           /\ resp[r][i].recordingId # ""

\* C4: if the Acquire call fails or times out, the request returns a
\* failure and neither IssueToken nor Start is invoked in it.
C4_AcquireFailureAborts ==
    \A r \in Reqs :
        (\E i \in DOMAIN calls[r] : calls[r][i].op = "Acquire" /\ calls[r][i].st = "fail")
        => /\ Answered(r)
           /\ Failure(r)
           /\ CallOps(r) = <<"Acquire">>

C4_Witness ==
    \E r \in Reqs :
        /\ Answered(r) /\ Failure(r)
        /\ CallOps(r) = <<"Acquire">> /\ calls[r][1].st = "fail"
        /\ resp[r][1].error.msg = <<"Failed to acquire resource: ", "upstream unavailable: ", "timeout">>

\* C5: if token issuance fails after a successful Acquire, the request
\* aborts with a failure; Start is never called and no other upstream call
\* (release, stop) is made for the acquired resource.
C5_TokenFailureAborts ==
    \A r \in Reqs :
        (\E i \in DOMAIN calls[r] : calls[r][i].op = "IssueToken" /\ calls[r][i].st = "fail")
        => /\ Answered(r)
           /\ Failure(r)
           /\ CallOps(r) = <<"Acquire", "IssueToken">>
           /\ calls[r][1].st = "ok"

C5_Witness ==
    \E r \in Reqs :
        /\ Answered(r) /\ Failure(r)
        /\ CallOps(r) = <<"Acquire", "IssueToken">>
        /\ calls[r][1].st = "ok" /\ calls[r][2].st = "fail"
        /\ resourceID[r] # ""

\* C6: if the Start call fails after Acquire and IssueToken succeeded, the
\* request ends with a single failure response that carries no
\* recordingId, and no further upstream call is made.
C6_StartFailureSingleError ==
    \A r \in Reqs :
        (\E i \in DOMAIN calls[r] : calls[r][i].op = "Start" /\ calls[r][i].st = "fail")
        => /\ Answered(r)
           /\ Failure(r)
           /\ "recordingId" \notin DOMAIN resp[r][1]
           /\ CallOps(r) = <<"Acquire", "IssueToken", "Start">>
           /\ calls[r][1].st = "ok" /\ calls[r][2].st = "ok"

C6_Witness ==
    \E r \in Reqs :
        /\ Answered(r) /\ Failure(r)
        /\ CallOps(r) = <<"Acquire", "IssueToken", "Start">>
        /\ calls[r][3].st = "fail"
        /\ resourceID[r] # "" /\ token[r] # NoToken

\* C7: nothing is retried: in a request each of Acquire, IssueToken and
\* Start is invoked at most once, and a failed call is the last call of the
\* request, which is then answered.
C7_NoRetry ==
    \A r \in Reqs :
        /\ \A i, j \in DOMAIN calls[r] : calls[r][i].op = calls[r][j].op => i = j
        /\ \A i \in DOMAIN calls[r] :
              calls[r][i].st = "fail" => (i = Len(calls[r]) /\ Answered(r) /\ Failure(r))

C7_Witness ==
    \E r \in Reqs :
        /\ Answered(r)
        /\ Len(calls[r]) = 3
        /\ calls[r][3].st = "fail"
        /\ resp[r][1].error.msg[1] = "Failed to start recording: "

----------------------------------------------------------------------------
(* Claims about the provider client (specification SpecClient).            *)

\* C8: makeRequest classifies every upstream response with a status in
\* [200, 300) as success and returns its body unchanged, and every response
\* with a status >= 300 as a failure whose error preserves the body.
C8_StatusClassification ==
    (cpc = "returned" /\ wire.kind = "response")
    => /\ (wire.status >= 200 /\ wire.status < 300)
            => (ret.err = NoErr /\ ret.body = wire.body)
       /\ wire.status >= 300
            => (ret.err # NoErr /\ ret.err.body = wire.body /\ ret.body = NilBody)

C8_Witness ==
    /\ cpc = "returned"
    /\ wire.kind = "response" /\ wire.status = 300 /\ wire.body = ObjBody("res-Y", "sid-X")
    /\ ret.err # NoErr /\ ret.err.body = wire.body

\* C9: when the provider answers with a status >= 300, the error returned
\* by the provider client carries the upstream status code together with
\* the raw body: the errors of two answers that differ in status differ.
C9_ErrorCarriesStatus ==
    (cpc = "returned" /\ wire.kind = "response" /\ wire.status >= 300)
    => /\ ret.err # NoErr
       /\ ret.err.body = wire.body
       /\ \A s \in Statuses :
             (s >= 300 /\ s # wire.status)
             => makeRequest([wire EXCEPT !.status = s]).err # ret.err

\* C10: a provider call that times out or fails at the network level
\* yields a failure, and the provider client returns a nil error only when
\* an upstream response with status < 300 was received.
C10_NoSilentSuccess ==
    cpc = "returned"
    => /\ wire.kind \in {"new_err", "do_err", "read_err"} => ret.err # NoErr
       /\ ret.err = NoErr => (wire.kind = "response" /\ wire.status < 300)

----------------------------------------------------------------------------
(* Claims about the single-call handlers (specification SpecHandlers).     *)

\* The provider URL of a passthrough operation, filled with a session triple.
TemplateUrl(op, rid, sid, mode) ==
    CASE op = "stop" -> StopUrl(rid, sid, mode)
      [] op = "query" -> QueryUrl(rid, sid, mode)
      [] op = "update" -> UpdateUrl(rid, sid)
      [] op = "updateLayout" -> UpdateLayoutUrl(rid, sid)

\* C11: each passthrough operation (stop, query, update, updateLayout)
\* performs exactly one forwarded provider request per valid inbound
\* request and never invokes the token issuer or the Acquire call.
C11_PassthroughSingleCall ==
    hin.op \in Passthrough
    => /\ (hin.decodable /\ hpc \in {"wait", "done"})
            => (Len(hcalls) = 1 /\ hcalls[1].kind = "provider" /\ hcalls[1].op = hin.op)
       /\ \A i \in DOMAIN hcalls :
            hcalls[i].kind # "token" /\ hcalls[i].op # "acquire" /\ hcalls[i].url # AcquireUrl

C11_Witness ==
    /\ hin.op = "stop" /\ hin.decodable /\ hpc = "done"
    /\ Len(hcalls) = 1 /\ hcalls[1].op = "stop" /\ hcalls[1].method = "POST"
    /\ Len(hresp) = 1 /\ hresp[1].status = 200

\* C12: the provider URL of a passthrough request is the operation's
\* template filled with exactly the resourceId, recordingId and
\* recordingMode the caller supplied in the request.
C12_UrlFromCallerTriple ==
    (hin.op \in Passthrough /\ hin.decodable /\ hpc \in {"wait", "done"})
    => \A i \in DOMAIN hcalls :
          hcalls[i].kind = "provider"
          => hcalls[i].url = TemplateUrl(hin.op, hin.resourceId, hin.sid, hin.mode)

\* C13: when the forwarded provider request of a passthrough operation
\* succeeds, the body returned to the caller is the provider's response
\* body, unchanged.
C13_BodyRelayedVerbatim ==
    (hin.op \in Passthrough /\ hpc = "done" /\ hcalls # <<>>
        /\ wire.kind = "response" /\ wire.status < 300)
    => hresp = <<DataResponse(wire.body)>>

C13_Witness ==
    /\ hin.op = "query" /\ hpc = "done"
    /\ wire.kind = "response" /\ wire.status = 200 /\ wire.body = ObjBody(Absent, Absent)
    /\ Len(hresp) = 1 /\ hresp[1].status = 200 /\ hresp[1].data = ObjBody(Absent, Absent)

\* C14: every provider call (acquire, start, stop, query, update,
\* updateLayout) carries Basic auth built from the customer pair
\* (customerID, customerCertificate), never from the application pair
\* (appID, appCertificate).
C14_CustomerBasicAuth ==
    \A i \in DOMAIN hcalls :
        hcalls[i].kind = "provider"
        => /\ hcalls[i].authorization.scheme = "Basic"
           /\ hcalls[i].authorization.credentials
                 = Base64Encode(<<svc.customerID, ":", svc.customerCertificate>>)
           /\ hcalls[i].authorization.credentials
                 # Base64Encode(<<svc.appID, ":", svc.appCertificate>>)

C14_Witness ==
    /\ hin.op = "start" /\ hpc = "wait"
    /\ Len(hcalls) = 2 /\ hcalls[2].kind = "provider"
    /\ hcalls[2].authorization.credentials
          = Base64Encode(<<"customer-id", ":", "customer-cert">>)

----------------------------------------------------------------------------
(* Claims about the session values of StartRecording (specification Spec). *)

RECURSIVE DecVal(_)
\* The value of a sequence of decimal digits.
DecVal(d) == IF d = <<>> THEN 0 ELSE 10 * DecVal(SubSeq(d, 1, Len(d) - 1)) + d[Len(d)]

IsDecimal(d) == Len(d) >= 1 /\ \A i \in DOMAIN d : d[i] \in 0..9

\* C15: every uid the generator produces for a StartRecording request is a
\* decimal numeric string whose value v satisfies 1 <= v < 2^31 - 1; it is
\* never 0 and never empty.
C15_UidInRange ==
    \A r \in Reqs :
        calls[r] # <<>>
        => /\ uid[r] # <<>> /\ uid[r] # <<0>>
           /\ IsDecimal(uid[r])
           /\ 1 <= DecVal(uid[r]) /\ DecVal(uid[r]) < 2147483647
           /\ \A i \in DOMAIN calls[r] : IsDecimal(calls[r][i].uid)

C15_Witness ==
    \E r \in Reqs :
        /\ uid[r] = Itoa(2147483646) /\ Len(uid[r]) = 10
        /\ calls[r] # <<>> /\ calls[r][1].op = "Acquire" /\ calls[r][1].uid = uid[r]

\* C16: when several StartRecording requests run concurrently, at most one
\* of them is inside the UID generator's random source at any time.
C16_RngExclusive == Cardinality(rngHolder) <= 1

C16_Witness ==
    /\ rngHolder = {"r1"} /\ pc["r1"] = "rng"
    /\ pc["r2"] = "uid"

C18_RecordingIdFromStart ==
    \A r \in Reqs : \A i \in DOMAIN resp[r] :
        "recordingId" \in DOMAIN resp[r][i]
        => /\ resp[r][i].status = 200
           /\ calls[r] # <<>>
           /\ LET last == calls[r][Len(calls[r])] IN
                /\ last.op = "Start" /\ last.st = "ok"
                /\ resp[r][i].recordingId = Field(last.answer, "sid")

C18_Witness ==
    \E r \in Reqs :
        /\ Success(r) /\ resp[r][1].recordingId = "sid-X"
        /\ calls[r][3].op = "Start" /\ calls[r][3].answer = ObjBody("res-Y", "sid-X")

\* C19: within one StartRecording request the uid is generated once and the
\* same value is used in the Acquire request, in the token request, in the
\* Start payload and as the UID of the success response.
C19_SingleUid ==
    /\ [](\A r \in Reqs :
            /\ \A i \in DOMAIN calls[r] : calls[r][i].uid = uid[r]
            /\ \A i \in DOMAIN resp[r] :
                 "UID" \in DOMAIN resp[r][i] => resp[r][i].UID = uid[r])
    /\ [][\A r \in Reqs : uid[r] # <<>> => uid'[r] = uid[r]]_vars

C19_Witness ==
    \E r \in Reqs :
        /\ Success(r) /\ resp[r][1].UID = Itoa(1)
        /\ CallOps(r) = <<"Acquire", "IssueToken", "Start">>
        /\ \A i \in 1..3 : calls[r][i].uid = Itoa(1)

\* C20: the token in the Start payload is exactly the token the token
\* issuer returned earlier in the same request for that request's channel
\* and uid; the token is empty before issuance and a Start call is never
\* sent with an empty token.
C20_StartCarriesIssuedToken ==
    \A r \in Reqs :
        /\ \A i \in DOMAIN calls[r] :
             IF calls[r][i].op = "Start"
             THEN /\ i > 1 /\ calls[r][i - 1].op = "IssueToken" /\ calls[r][i - 1].st = "ok"
                  /\ calls[r][i].token = calls[r][i - 1].issued
                  /\ calls[r][i].token = [channel |-> clientReq[r].channelName, uid |-> uid[r]]
                  /\ calls[r][i].token # NoToken
             ELSE calls[r][i].token = NoToken
        /\ pc[r] \in {"idle", "uid", "rng", "acquire", "token"} => token[r] = NoToken

C20_Witness ==
    \E r \in Reqs :
        /\ Len(calls[r]) = 3 /\ calls[r][3].op = "Start"
        /\ calls[r][3].token = [channel |-> "testChannel", uid |-> Itoa(1)]
        /\ calls[r][2].issued = calls[r][3].token

----------------------------------------------------------------------------
(* Claims about the Start payload and the responses (specification Spec).  *)

\* C21: every Start payload built by StartRecording has scene = 1 and
\* resourceExpiredHour = 24, whatever the client request contains.
C21_StartDefaults ==
    \A r \in Reqs : \A i \in DOMAIN calls[r] :
        calls[r][i].op = "Start"
        => calls[r][i].scene = 1 /\ calls[r][i].resourceExpiredHour = 24

C21_Witness ==
    \E r \in Reqs :
        /\ inbound[r].scene = 5 /\ inbound[r].resourceExpiredHour = 72
        /\ Len(calls[r]) = 3 /\ calls[r][3].op = "Start"
        /\ calls[r][3].scene = 1 /\ calls[r][3].resourceExpiredHour = 24

\* C28: the storage configuration in every Start payload is the service's
\* own configured storage configuration: nothing in the caller's request
\* changes or replaces it, and no request modifies the configured value.
C28_StorageFromService ==
    /\ svc.storageConfig = ConfiguredStorage
    /\ \A r \in Reqs : \A i \in DOMAIN calls[r] :
          IF calls[r][i].op = "Start"
          THEN calls[r][i].storageConfig = ConfiguredStorage
          ELSE calls[r][i].storageConfig = NoStorage

C28_Witness ==
    \E r \in Reqs :
        /\ inbound[r].storageConfig = CallerStorage
        /\ Len(calls[r]) = 3 /\ calls[r][3].op = "Start"
        /\ calls[r][3].storageConfig.bucket = "bucket"
        /\ svc.storageConfig.bucket = "bucket"

----------------------------------------------------------------------------
(* Claims about failure kinds (specification SpecClient).                  *)

\* The kind of upstream failure the network outcome o is; "none" when o is
\* not an upstream failure.
UpstreamKind(o) ==
    CASE o.kind \in {"do_err", "read_err"} -> "UpstreamUnavailable"
      [] o.kind = "response" /\ o.status \in {401, 403} -> "UpstreamAuthError"
      [] o.kind = "response" /\ o.status >= 400 /\ o.status < 500
            /\ o.status \notin {401, 403} -> "UpstreamClientError"
      [] o.kind = "response" /\ o.status >= 300
            /\ (o.status < 400 \/ o.status >= 500) -> "UnknownUpstreamError"
      [] OTHER -> "none"

\* C22: upstream failures are classified by kind (401/403, other 4xx,
\* network failure or timeout, any other non-2xx) and the kinds are
\* distinguishable in what the caller receives: two failures of different
\* kinds never give the caller the same error.
C22_FailureKindsDistinguishable ==
    (cpc = "returned" /\ UpstreamKind(wire) # "none")
    => /\ ret.err # NoErr
       /\ \A o \in Outcomes(Statuses) :
             UpstreamKind(o) \notin {"none", UpstreamKind(wire)}
             => makeRequest(o).err # ret.err

----------------------------------------------------------------------------
(* Claims about requests of both kinds (specification SpecService).        *)

\* C23: a request whose JSON body cannot be decoded is rejected locally
\* with HTTP 400 by StartRecording, StopRecording, UpdateSubscriptionList
\* and UpdateLayout: no uid is generated, no token is issued and no
\* provider call is made.
C23_UndecodableRejectedLocally ==
    /\ (pc["r1"] # "idle" /\ ~inbound["r1"].decodable)
         => /\ pc["r1"] = "done"
            /\ Len(resp["r1"]) = 1 /\ resp["r1"][1].status = 400
            /\ calls["r1"] = <<>> /\ uid["r1"] = <<>> /\ token["r1"] = NoToken
            /\ "r1" \notin rngHolder
    /\ (hpc # "idle" /\ hin.op \in {"stop", "update", "updateLayout"} /\ ~hin.decodable)
         => /\ hpc = "done"
            /\ Len(hresp) = 1 /\ hresp[1].status = 400
            /\ hcalls = <<>>

C23_Witness ==
    /\ pc["r1"] = "done" /\ ~inbound["r1"].decodable /\ resp["r1"][1].status = 400
    /\ hpc = "done" /\ hin.op = "updateLayout" /\ ~hin.decodable /\ hresp[1].status = 400

\* Everything request r of StartRecording holds, and everything the
\* handler request holds.
OrchState(r) ==
    <<inbound[r], pc[r], clientReq[r], uid[r], resourceID[r], token[r], calls[r], resp[r]>>
HandlerState == <<hpc, hin, hcalls, hresp>>

\* C26: requests are independent. The service's configuration is never
\* written, a step of one request changes nothing another request holds,
\* and the calls a request makes and the response it returns are functions
\* of its own input, its own uid and the upstream answers to its own calls,
\* for any interleaving of a StartRecording and a passthrough request.
C26_RequestsIndependent ==
    /\ [][ /\ svc' = svc
           /\ \A r \in Reqs :
                OrchState(r)' # OrchState(r)
                => /\ HandlerState' = HandlerState
                   /\ \A q \in Reqs \ {r} : OrchState(q)' = OrchState(q) ]_vars
    /\ [](/\ \A i \in DOMAIN hcalls :
                /\ hcalls[i].url = TemplateUrl(hin.op, Param(hin, "resourceid"),
                                               Param(hin, "sid"), Param(hin, "mode"))
                /\ hcalls[i].body = MarshalReq(hin, hin.token)
          /\ (hpc = "done" /\ hcalls # <<>>) => hresp = <<RelayResponse(makeRequest(wire))>>
          /\ Success("r1")
                => resp["r1"][1] = SuccessResponse(calls["r1"][1].uid,
                                                   Field(calls["r1"][1].answer, "resourceId"),
                                                   Field(calls["r1"][3].answer, "sid")))

C26_Witness ==
    /\ Success("r1") /\ resourceID["r1"] = "res-Y"
    /\ hpc = "done" /\ hin.op = "stop" /\ hin.decodable
    /\ Len(hresp) = 1 /\ hresp[1].status = 500

\* C27: every StartRecording request that is decoded terminates with
\* exactly one response to the caller, either the success result or one
\* error, on every path.
C27_DecodedGetsOneResponse ==
    \A r \in Reqs :
        /\ Len(resp[r]) <= 1
        /\ (pc[r] = "done" /\ inbound[r].decodable)
             => /\ Len(resp[r]) = 1
                /\ \/ resp[r][1].status = 200 /\ "recordingId" \in DOMAIN resp[r][1]
                   \/ resp[r][1].status >= 400 /\ "error" \in DOMAIN resp[r][1]

----------------------------------------------------------------------------
(* Claims about the steps of StartRecording (specification Spec).          *)

AcquirePrefix == "Failed to acquire resource: "
StartPrefix == "Failed to start recording: "

\* The step a failure response names, read from its text alone.
StepOf(x) ==
    IF x.error.msg[1] = AcquirePrefix THEN "Acquire"
    ELSE IF x.error.msg[1] = StartPrefix THEN "Start"
    ELSE "IssueToken"

\* C24: the failure response of StartRecording identifies the furthest step
\* reached: failures of Acquire, of token issuance and of Start produce
\* responses distinguishable from one another, each including the
\* underlying error text.
C24_FailureNamesStep ==
    \A r \in Reqs :
        (Answered(r) /\ Failure(r) /\ calls[r] # <<>>)
        => LET last == calls[r][Len(calls[r])]
               x == resp[r][1] IN
           /\ last.st = "fail"
           /\ StepOf(x) = last.op
           /\ last.op = "IssueToken" => x.error = TokenErr
           /\ last.op = "Acquire"
                => \E o \in Outcomes(OrchStatuses) :
                      LET e == HandleAcquireResourceReq(o).err IN
                      e # NoErr /\ x.error = [e EXCEPT !.msg = <<AcquirePrefix>> \o @]
           /\ last.op = "Start"
                => \E o \in Outcomes(OrchStatuses) :
                      LET e == HandleStartRecordingReq(o).err IN
                      e # NoErr /\ x.error = [e EXCEPT !.msg = <<StartPrefix>> \o @]

C24_Witness ==
    /\ Failure("r1") /\ CallOps("r1") = <<"Acquire">>
    /\ resp["r1"][1].error.msg[1] = AcquirePrefix
    /\ Failure("r2") /\ CallOps("r2") = <<"Acquire", "IssueToken", "Start">>
    /\ resp["r2"][1].error.msg[1] = StartPrefix

\* C25: within a single StartRecording request at most one call (Acquire,
\* IssueToken or Start) is outstanding at any time: a call is begun only
\* after every earlier call of the request has returned, on every path.
C25_OneCallOutstanding ==
    \A r \in Reqs :
        /\ \A i \in DOMAIN calls[r] : i < Len(calls[r]) => calls[r][i].st # "out"
        /\ Cardinality({ i \in DOMAIN calls[r] : calls[r][i].st = "out" }) <= 1
        /\ Answered(r) => \A i \in DOMAIN calls[r] : calls[r][i].st # "out"

C25_Witness ==
    \E r \in Reqs :
        /\ Len(calls[r]) = 3 /\ calls[r][1].st = "ok" /\ calls[r][2].st = "ok"
        /\ calls[r][3].st = "out" /\ pc[r] = "start"

----------------------------------------------------------------------------
(* Claims about the middleware chain (specification SpecCors).             *)

\* The request carries an Origin header equal to one of the comma-separated
\* allowed origins, or the allowed origin is "*".
OriginPermitted ==
    \/ mw.AllowOrigin = <<"*">>
    \/ /\ mctx.origin # <<>>
       /\ \E i \in DOMAIN Split(mw.AllowOrigin, ",") :
             mctx.origin = Split(mw.AllowOrigin, ",")[i]

\* C29: on routes that use the CORS middleware a handler runs only for a
\* request whose Origin header equals one of the allowed origins or when
\* the allowed origin is "*"; any other request, including one with no
\* Origin header, is answered 403 and aborted before the handler, and an
\* OPTIONS request from an allowed origin is answered 204 without reaching
\* the handler.
C29_CorsGate ==
    mpc \in {"handler", "done"}
    => /\ (mpc = "handler" \/ mctx.handled) => (OriginPermitted /\ mctx.method # "OPTIONS")
       /\ ~OriginPermitted
            => (mpc = "done" /\ mctx.status = 403 /\ mctx.aborted /\ ~mctx.handled)
       /\ (OriginPermitted /\ mctx.method = "OPTIONS")
            => (mpc = "done" /\ mctx.status = 204 /\ mctx.aborted /\ ~mctx.handled)

====
